---- MODULE Spec2Model ----
(***************************************************************************)
(* tauri-macos-haptics: the command surface (is_supported, perform), the   *)
(* numeric decoders and HapticFeedbackManager, as a state machine in which *)
(* several callers invoke the commands concurrently.                       *)
(***************************************************************************)
EXTENDS Integers, Sequences, FiniteSets, TLC

\* ---- bounds ----
MaxCode == 3
MaxCalls == 2

\* the invocations that can be in progress at once, and the codes they pass
Callers == {"c1", "c2"}
Codes == 0..MaxCode

\* ---- platform and environment ----
Platforms == {"macos", "linux", "windows"}

\* ---- the two enumerations ----
HapticPattern == {"Alignment", "LevelChange", "Generic"}
PerformanceTime == {"Default", "Now", "DrawCompleted"}

\* ---- Option<T> ----
None == <<>>
Some(x) == <<x>>
unwrap_or(o, d) == IF o = None THEN d ELSE o[1]
OptionalTimes == {None} \cup {Some(t) : t \in PerformanceTime}

\* ---- Result<(), String> and bool return values ----
Ok == [kind |-> "Ok", msg |-> "", val |-> FALSE]
Err(m) == [kind |-> "Err", msg |-> m, val |-> FALSE]
Bool(b) == [kind |-> "Bool", msg |-> "", val |-> b]
NoResult == [kind |-> "None", msg |-> "", val |-> FALSE]
UnsupportedMsg == "Haptic feedback is only supported on macOS."

\* ---- the platform's single default performer object ----
SystemPerformer == "defaultPerformer"
NoHandle == "nil"
NoValue == "unset"

VARIABLES platform, perceptible, pc, args, manager, pat, ptime, issued,
          result, first, requests, retainCount, started

vars == <<platform, perceptible, pc, args, manager, pat, ptime, issued,
          result, first, requests, retainCount, started>>

\* cfg(target_os = "macos")
IsMacos == platform = "macos"

\* ---- commands.rs: decoders ----
pattern_from_u64_fallback_alignment(value) ==
    CASE value = 0 -> "Alignment"
      [] value = 1 -> "LevelChange"
      [] value = 2 -> "Generic"
      [] OTHER -> "Alignment"
pattern_from_u64(value) ==
    CASE value = 0 -> "Alignment"
      [] value = 1 -> "LevelChange"
      [] value = 2 -> "Generic"
      [] OTHER -> "Generic"

performance_time_from_u64_fallback_now(value) ==
    CASE value = 0 -> "Default"
      [] value = 1 -> "Now"
      [] value = 2 -> "DrawCompleted"
      [] OTHER -> "Now"
performance_time_from_u64(value) ==
    CASE value = 0 -> "Default"
      [] value = 1 -> "Now"
      [] value = 2 -> "DrawCompleted"
      [] OTHER -> "Default"

\* ---- lib.rs / commands.rs: capability probe ----
lib_is_supported_perceptible == IsMacos /\ perceptible
lib_is_supported == IF IsMacos THEN TRUE ELSE FALSE
cmd_is_supported == lib_is_supported

\* ---- per-invocation frame: arguments and temporaries of one call ----
SharedSlot(c) == "c1"
Slot(c) == c

\* the timing the perform command hands to HapticFeedbackManager::perform
CommandTimingArgConflated(t) ==
    IF t = 0 THEN None ELSE Some(performance_time_from_u64(t))
CommandTimingArg(t) == Some(performance_time_from_u64(t))

\* let ptime = performance_time.unwrap_or(PerformanceTime::Now)
ResolveTimeDefault(o) == unwrap_or(o, "Default")
ResolveTime(o) == unwrap_or(o, "Now")

\* one performFeedbackPattern:performanceTime: message to the performer
NativeCall(h, p, t) == [handle |-> h, pattern |-> p, ptime |-> t]

\* the value HapticFeedbackManager::perform returns
ManagerPerformResultStateful == IF requests > 1 THEN Err("busy") ELSE Ok
ManagerPerformResult == Ok

\* .map_err(|e| e.to_string())
map_err(r) == IF r.kind = "Err" THEN Err(r.msg) ELSE r

UnsupportedResultOk == Ok
UnsupportedResult == Err(UnsupportedMsg)

\* the arguments of one invocation: numeric codes on the command path, a
\* HapticPattern and an Option<PerformanceTime> on the library path
NoArgs == [op |-> "none", pattern |-> 0, time |-> 0, lpattern |-> NoValue, ltime |-> None]
CommandArgs(p, t) == [NoArgs EXCEPT !.op = "perform", !.pattern = p, !.time = t]
LibraryArgs(p, o) == [NoArgs EXCEPT !.op = "lib_perform", !.lpattern = p, !.ltime = o]
ProbeArgs == [NoArgs EXCEPT !.op = "is_supported"]

\* what one finished invocation was given, returned and sent to the performer
Completed(c) == [args |-> args[c], result |-> result[c], native |-> issued[Slot(c)]]
NoRecord == [args |-> NoArgs, result |-> NoResult, native |-> <<>>]

\* callers currently holding a HapticFeedbackManager
Holders == {c \in Callers : manager[c] # NoHandle}

TypeOK ==
    /\ platform \in Platforms
    /\ perceptible \in BOOLEAN
    /\ requests \in 0..MaxCalls
    /\ started \in 0..MaxCalls
    /\ \A c \in Callers :
         /\ pc[c] \in {"idle", "body", "decode_pattern", "decode_time", "native", "return"}
         /\ manager[c] \in {NoHandle, SystemPerformer}
         /\ pat[c] \in HapticPattern \cup {NoValue}
         /\ ptime[c] \in OptionalTimes
         /\ Len(issued[c]) <= 1

Init ==
    /\ platform \in Platforms
    /\ perceptible \in BOOLEAN
    /\ pc = [c \in Callers |-> "idle"]
    /\ args = [c \in Callers |-> NoArgs]
    /\ manager = [c \in Callers |-> NoHandle]
    /\ pat = [c \in Callers |-> NoValue]
    /\ ptime = [c \in Callers |-> None]
    /\ issued = [c \in Callers |-> <<>>]
    /\ result = [c \in Callers |-> NoResult]
    /\ first = NoRecord
    /\ requests = 0
    /\ retainCount = 1
    /\ started = 0

\* the user touches or leaves the trackpad, or changes the haptics setting:
\* whether a pulse would be felt changes outside the program
EnvChange ==
    /\ perceptible' = ~perceptible
    /\ UNCHANGED <<platform, pc, args, manager, pat, ptime, issued, result,
                   first, requests, retainCount, started>>

\* commands::is_supported
IsSupportedCommand(c) ==
    /\ pc[c] = "idle"
    /\ args' = [args EXCEPT ![c] = ProbeArgs]
    /\ result' = [result EXCEPT ![c] = Bool(cmd_is_supported)]
    /\ pc' = [pc EXCEPT ![c] = "return"]
    /\ UNCHANGED <<platform, perceptible, manager, pat, ptime, issued, first,
                   requests, retainCount, started>>

\* commands::perform is invoked with two numeric codes
PerformCommandCall(c, p, t) ==
    /\ pc[c] = "idle"
    /\ started < MaxCalls
    /\ started' = started + 1
    /\ args' = [args EXCEPT ![c] = CommandArgs(p, t)]
    /\ pc' = [pc EXCEPT ![c] = "body"]
    /\ UNCHANGED <<platform, perceptible, manager, pat, ptime, issued, result,
                   first, requests, retainCount>>

\* cfg(not(target_os = "macos")): Err("Haptic feedback is only supported on macOS.")
PerformUnsupported(c) ==
    /\ pc[c] = "body"
    /\ ~IsMacos
    /\ result' = [result EXCEPT ![c] = UnsupportedResult]
    /\ pc' = [pc EXCEPT ![c] = "return"]
    /\ UNCHANGED <<platform, perceptible, args, manager, pat, ptime, issued,
                   first, requests, retainCount, started>>

\* a Rust caller uses haptics::HapticFeedbackManager directly; the module
\* exists on macOS only
LibraryPerformCall(c, p, o) ==
    /\ pc[c] = "idle"
    /\ IsMacos
    /\ started < MaxCalls
    /\ started' = started + 1
    /\ args' = [args EXCEPT ![c] = LibraryArgs(p, o)]
    /\ pc' = [pc EXCEPT ![c] = "body"]
    /\ UNCHANGED <<platform, perceptible, manager, pat, ptime, issued, result,
                   first, requests, retainCount>>

\* HapticFeedbackManager::default_performer()
DefaultPerformer(c) ==
    /\ pc[c] = "body"
    /\ IsMacos
    /\ requests' = requests + 1
    /\ retainCount' = retainCount + 1
    /\ manager' = [manager EXCEPT ![c] = SystemPerformer]
    /\ IF args[c].op = "perform"
         THEN /\ pc' = [pc EXCEPT ![c] = "decode_pattern"]
              /\ UNCHANGED <<pat, ptime>>
         ELSE /\ pc' = [pc EXCEPT ![c] = "native"]
              /\ pat' = [pat EXCEPT ![Slot(c)] = args[c].lpattern]
              /\ ptime' = [ptime EXCEPT ![Slot(c)] = args[c].ltime]
    /\ UNCHANGED <<platform, perceptible, args, issued, result, first, started>>

\* pattern_from_u64(pattern)
DecodePattern(c) ==
    /\ pc[c] = "decode_pattern"
    /\ pat' = [pat EXCEPT ![Slot(c)] = pattern_from_u64(args[c].pattern)]
    /\ pc' = [pc EXCEPT ![c] = "decode_time"]
    /\ UNCHANGED <<platform, perceptible, args, manager, ptime, issued, result,
                   first, requests, retainCount, started>>

\* Some(performance_time_from_u64(performance_time))
DecodeTime(c) ==
    /\ pc[c] = "decode_time"
    /\ ptime' = [ptime EXCEPT ![Slot(c)] = CommandTimingArg(args[c].time)]
    /\ pc' = [pc EXCEPT ![c] = "native"]
    /\ UNCHANGED <<platform, perceptible, args, manager, pat, issued, result,
                   first, requests, retainCount, started>>

ManagerPerformTwice(c) ==
    /\ pc[c] = "native"
    /\ LET n == NativeCall(manager[c], pat[Slot(c)], ResolveTime(ptime[Slot(c)]))
       IN issued' = [issued EXCEPT ![Slot(c)] = Append(Append(@, n), n)]
    /\ result' = [result EXCEPT ![c] =
                    IF args[c].op = "perform" THEN map_err(ManagerPerformResult)
                                              ELSE ManagerPerformResult]
    /\ pc' = [pc EXCEPT ![c] = "return"]
    /\ UNCHANGED <<platform, perceptible, args, manager, pat, ptime, first,
                   requests, retainCount, started>>

\* HapticFeedbackManager::perform(&self, pattern, performance_time), then
\* .map_err(|e| e.to_string()) on the command path
ManagerPerform(c) ==
    /\ pc[c] = "native"
    /\ issued' = [issued EXCEPT ![Slot(c)] =
                    Append(@, NativeCall(manager[c], pat[Slot(c)],
                                         ResolveTime(ptime[Slot(c)])))]
    /\ result' = [result EXCEPT ![c] =
                    IF args[c].op = "perform" THEN map_err(ManagerPerformResult)
                                              ELSE ManagerPerformResult]
    /\ pc' = [pc EXCEPT ![c] = "return"]
    /\ UNCHANGED <<platform, perceptible, args, manager, pat, ptime, first,
                   requests, retainCount, started>>

\* dropping a HapticFeedbackManager releases its Retained reference
ReleaseTwice(c) == IF manager[c] # NoHandle THEN retainCount - 2 ELSE retainCount
Release(c) == IF manager[c] # NoHandle THEN retainCount - 1 ELSE retainCount

\* the call returns its result to the caller; its frame goes out of scope
Return(c) ==
    /\ pc[c] = "return"
    /\ first' = IF first = NoRecord THEN Completed(c) ELSE first
    /\ retainCount' = Release(c)
    /\ manager' = [manager EXCEPT ![c] = NoHandle]
    /\ result' = [result EXCEPT ![c] = NoResult]
    /\ args' = [args EXCEPT ![c] = NoArgs]
    /\ pat' = [pat EXCEPT ![Slot(c)] = NoValue]
    /\ ptime' = [ptime EXCEPT ![Slot(c)] = None]
    /\ issued' = [issued EXCEPT ![Slot(c)] = <<>>]
    /\ pc' = [pc EXCEPT ![c] = "idle"]
    /\ UNCHANGED <<platform, perceptible, requests, started>>

Next ==
    \/ EnvChange
    \/ \E c \in Callers : IsSupportedCommand(c)
    \/ \E c \in Callers, p \in Codes, t \in Codes : PerformCommandCall(c, p, t)
    \/ \E c \in Callers : PerformUnsupported(c)
    \/ \E c \in Callers, p \in HapticPattern, o \in OptionalTimes : LibraryPerformCall(c, p, o)
    \/ \E c \in Callers : DefaultPerformer(c)
    \/ \E c \in Callers : DecodePattern(c)
    \/ \E c \in Callers : DecodeTime(c)
    \/ \E c \in Callers : ManagerPerform(c)
    \/ \E c \in Callers : Return(c)

Spec == Init /\ [][Next]_vars

----------------------------------------------------------------------------
\* Properties

\* a perform command in progress on macOS
OnCommandPath(c) == IsMacos /\ args[c].op = "perform"

\* C1: for every code n, pattern_from_u64(n) yields exactly one HapticPattern:
\* 0 gives Alignment, 1 gives LevelChange, 2 gives Generic and every other
\* code gives Generic.
C1_PatternDecoding ==
    \A c \in Callers :
        (OnCommandPath(c) /\ pc[c] \in {"decode_time", "native", "return"}) =>
            LET n == args[c].pattern
                r == pat[c]
            IN /\ r \in HapticPattern
               /\ (n = 0) => (r = "Alignment")
               /\ (n = 1) => (r = "LevelChange")
               /\ (n = 2) => (r = "Generic")
               /\ (n \notin {0, 1, 2}) => (r = "Generic")

C1_Witness ==
    \E c \in Callers :
        /\ OnCommandPath(c) /\ pc[c] = "decode_time"
        /\ args[c].pattern > 2 /\ pat[c] = "Generic"

\* C2: for every code n, performance_time_from_u64(n) yields exactly one
\* PerformanceTime: 0 gives Default, 1 gives Now, 2 gives DrawCompleted and
\* every other code gives Default.
C2_TimingDecoding ==
    \A c \in Callers :
        (OnCommandPath(c) /\ pc[c] \in {"native", "return"}) =>
            LET n == args[c].time
                o == ptime[c]
            IN /\ o \in {Some(t) : t \in PerformanceTime}
               /\ (n = 0) => (o = Some("Default"))
               /\ (n = 1) => (o = Some("Now"))
               /\ (n = 2) => (o = Some("DrawCompleted"))
               /\ (n \notin {0, 1, 2}) => (o = Some("Default"))

C2_Witness ==
    \E c \in Callers :
        /\ OnCommandPath(c) /\ pc[c] = "native"
        /\ args[c].time > 2 /\ ptime[c] = Some("Default")

\* C3: off macOS every perform command, whatever its codes, returns the fixed
\* error "Haptic feedback is only supported on macOS."; no code is decoded,
\* no performer is requested and nothing is sent to a performer.
C3_UnsupportedPlatform ==
    (platform # "macos") =>
        /\ requests = 0
        /\ retainCount = 1
        /\ \A c \in Callers :
             /\ pat[c] = NoValue
             /\ ptime[c] = None
             /\ manager[c] = NoHandle
             /\ issued[c] = <<>>
             /\ (args[c].op = "perform" /\ pc[c] = "return") =>
                    /\ result[c].kind = "Err"
                    /\ result[c].msg = "Haptic feedback is only supported on macOS."
        /\ (first.args.op = "perform") =>
             /\ first.result.kind = "Err"
             /\ first.result.msg = "Haptic feedback is only supported on macOS."
             /\ first.native = <<>>

C3_Witness ==
    \E c \in Callers :
        /\ platform # "macos"
        /\ args[c] = CommandArgs(0, 0)
        /\ pc[c] = "return"
        /\ result[c].kind = "Err"

C5_AbsentTimingIsNow ==
    \A c \in Callers :
        (args[c].op = "lib_perform" /\ pc[c] = "return") =>
            /\ Len(issued[c]) = 1
            /\ issued[c][1].pattern = args[c].lpattern
            /\ (args[c].ltime = None) => (issued[c][1].ptime = "Now")
            /\ \A t \in PerformanceTime :
                 (args[c].ltime = Some(t)) => (issued[c][1].ptime = t)

C5_Witness ==
    \E c \in Callers :
        /\ args[c].op = "lib_perform" /\ pc[c] = "return"
        /\ args[c].ltime = None
        /\ issued[c][1].ptime = "Now"

\* C6: on macOS every perform command returns Ok and sends the performer
\* exactly one message, after both codes were decoded, carrying
\* (pattern_from_u64(p), performance_time_from_u64(t)).
C6_PerformSucceedsOnce ==
    \A c \in Callers :
        OnCommandPath(c) =>
            /\ (pc[c] \in {"body", "decode_pattern", "decode_time", "native"}) =>
                   issued[c] = <<>>
            /\ (issued[c] # <<>>) => (pat[c] # NoValue /\ ptime[c] # None)
            /\ (pc[c] = "return") =>
                   /\ result[c] = Ok
                   /\ Len(issued[c]) = 1
                   /\ issued[c][1].pattern = pattern_from_u64(args[c].pattern)
                   /\ issued[c][1].ptime = performance_time_from_u64(args[c].time)

C6_Witness ==
    \E c \in Callers :
        /\ OnCommandPath(c) /\ pc[c] = "return"
        /\ args[c].pattern = 1 /\ args[c].time = 2
        /\ result[c] = Ok
        /\ Len(issued[c]) = 1

\* C7: the perform command always hands the manager a present timing, so
\* code 0 and every unrecognised code reach the performer as Default, and
\* Now reaches it only for code 1.
C7_DefaultsNotConflated ==
    \A c \in Callers :
        OnCommandPath(c) =>
            /\ (pc[c] \in {"native", "return"}) => (ptime[c] # None)
            /\ (pc[c] = "return") =>
                   /\ (args[c].time \notin {1, 2}) => (issued[c][1].ptime = "Default")
                   /\ (issued[c][1].ptime = "Now") => (args[c].time = 1)

C7_Witness ==
    \E c \in Callers :
        /\ OnCommandPath(c) /\ pc[c] = "return"
        /\ args[c].time = 0
        /\ issued[c][1].ptime = "Default"

\* C8: a perform command repeated with the codes of an earlier one, after any
\* calls in between, returns the same result and sends the same message.
C8_Idempotent ==
    \A c \in Callers :
        (/\ first.args.op = "perform"
         /\ args[c] = first.args
         /\ pc[c] = "return") =>
            /\ result[c] = first.result
            /\ issued[c] = first.native

C8_Witness ==
    \E c \in Callers :
        /\ first.args.op = "perform"
        /\ args[c] = first.args
        /\ pc[c] = "return"
        /\ started = MaxCalls

C10_RequestedAtMostOnce ==
    /\ requests <= 1
    /\ \A c \in Callers : \A i \in 1..Len(issued[c]) :
         issued[c][i].handle = SystemPerformer
    /\ retainCount >= 1

\* C10 amended: every perform call that has reached default_performer() has
\* requested the platform's default performer once for itself; every message
\* goes to that platform object; a returning call gives up only the reference
\* it took, so the platform's own reference is never released.
C10_RequestedOncePerCall ==
    IsMacos =>
        /\ requests = started - Cardinality({c \in Callers : pc[c] = "body"})
        /\ \A c \in Callers : \A i \in 1..Len(issued[c]) :
             issued[c][i].handle = SystemPerformer
        /\ \A c \in Callers :
             (manager[c] # NoHandle) <=>
                 (pc[c] \in {"decode_pattern", "decode_time", "native"}
                  \/ (pc[c] = "return" /\ args[c].op # "is_supported"))
        /\ retainCount = 1 + Cardinality(Holders)

C10_Witness ==
    /\ IsMacos
    /\ requests = 2
    /\ first.args.op = "perform"
    /\ first.native # <<>>
    /\ \E c \in Callers : pc[c] = "return" /\ issued[c] # <<>>
====
